---- MODULE Spec2Model ----
(***************************************************************************)
(* Model of IncomeDistributionComparator (src/main.py): construction       *)
(* (__init__ / prepare_data), compare_income and create_percentile_table.  *)
(*                                                                         *)
(* Numbers.  The program computes in IEEE doubles; the model computes in   *)
(* exact rationals <<n, d>> (d > 0, lowest terms), so that division by the *)
(* PPP rate and linear interpolation are real computations whose results   *)
(* can differ from their inputs.                                           *)
(*                                                                         *)
(* Library calls are modelled by what they do at the call sites:           *)
(*   scipy.interpolate.interp1d(x, y, bounds_error=False,                  *)
(*       fill_value=(lo, hi))   copies x and y, stable-sorts them by x,    *)
(*       raises ValueError for an empty x, evaluates through numpy.interp  *)
(*       and overwrites the value by lo / hi where the argument is below   *)
(*       x[0] / above x[-1];                                               *)
(*   Series.argsort()           numpy's default 'quicksort', which is not  *)
(*       a stable sort: among equal keys any order can come out.           *)
(***************************************************************************)
EXTENDS Integers, Sequences, FiniteSets, TLC

VARIABLES
    percentile_data,  \* the DataFrame object handed to the constructor (shared, mutable)
    original_data,    \* the same DataFrame as it was read, before any constructor ran
    comparators,      \* the comparator objects constructed so far, oldest first
    last              \* the call in progress: the operation, its arguments and
                      \* what it returned or raised, until the caller takes it

vars == <<percentile_data, original_data, comparators, last>>

-----------------------------------------------------------------------------
(* Bounds of the model                                                     *)

MaxRows == 2
MaxTargets == 2
MaxComparators == 2

-----------------------------------------------------------------------------
(* Exact rational arithmetic                                               *)

Abs(n) == IF n < 0 THEN -n ELSE n

RECURSIVE GCD(_, _)
GCD(a, b) == IF b = 0 THEN a ELSE GCD(b, a % b)

Norm(n, d) ==
    LET g == GCD(Abs(n), Abs(d))
        s == IF d < 0 THEN -1 ELSE 1
    IN  <<(s * n) \div g, (s * d) \div g>>

R(n) == <<n, 1>>
RAdd(a, b) == Norm(a[1] * b[2] + b[1] * a[2], a[2] * b[2])
RSub(a, b) == Norm(a[1] * b[2] - b[1] * a[2], a[2] * b[2])
RMul(a, b) == Norm(a[1] * b[1], a[2] * b[2])
RDiv(a, b) == Norm(a[1] * b[2], a[2] * b[1])
RLt(a, b) == a[1] * b[2] < b[1] * a[2]
RLe(a, b) == a[1] * b[2] <= b[1] * a[2]
RAbs(a) == <<Abs(a[1]), a[2]>>

-----------------------------------------------------------------------------
(* Column names                                                            *)

required_raw_columns == <<"Percentile", "US_Income_USD", "Israel_Income_ILS">>
required_std_columns == <<"Percentile", "US_Std_Income_USD", "Israel_Std_Income_ILS">>

Range(s) == {s[i] : i \in 1..Len(s)}

\* A DataFrame: its number of rows and its columns, name -> sequence of values.
Columns(df) == DOMAIN df.col

\* df[name] = values : assignment of a whole column (adds or overwrites it).
SetColumn(df, name, values) ==
    [df EXCEPT !.col = [c \in (DOMAIN df.col) \cup {name} |->
                            IF c = name THEN values ELSE df.col[c]]]

\* SeriesDiv with the conversion forgotten: the series is used as it is.
SeriesDivForgotten(s, k) == s

\* series / scalar
SeriesDiv(s, k) == [i \in 1..Len(s) |-> RDiv(s[i], k)]

-----------------------------------------------------------------------------
(* scipy.interpolate.interp1d, as used by prepare_data                     *)

\* The value both ends are filled with outside the table: fill_value=(1, 99).
fill_value == <<R(1), R(99)>>

\* Position of index i in the index sequence s, which is sorted by key: after
\* every index whose key is <= key[i] (equal keys keep their order: mergesort).
InsertStable(s, i, key) ==
    LET pos == Cardinality({j \in 1..Len(s) : RLe(key[s[j]], key[i])})
    IN  SubSeq(s, 1, pos) \o <<i>> \o SubSeq(s, pos + 1, Len(s))

RECURSIVE ArgSortStable(_, _)
ArgSortStable(key, k) ==
    IF k = 0 THEN <<>> ELSE InsertStable(ArgSortStable(key, k - 1), k, key)

\* A function object that was never assigned (the attribute does not exist).
NoFunc == [set |-> FALSE, x |-> <<>>, y |-> <<>>, fill |-> <<>>]

\* interp1d(x, y, bounds_error=False, fill_value=fill): the constructed object,
\* or raised = TRUE when x has no entry.
Interp1d(x, y, fill) ==
    IF Len(x) < 1
    THEN [raised |-> TRUE, func |-> NoFunc]
    ELSE LET ind == ArgSortStable(x, Len(x))
         IN  [raised |-> FALSE,
              func |-> [set |-> TRUE,
                        x |-> [i \in 1..Len(x) |-> x[ind[i]]],
                        y |-> [i \in 1..Len(x) |-> y[ind[i]]],
                        fill |-> fill]]

\* NpInterp as a step function (kind='previous'): the breakpoint's own value
\* all the way to the next breakpoint.
NpInterpPrevious(xp, fp, x) ==
    LET n == Len(xp)
    IN  IF RLt(x, xp[1]) THEN fp[1]
        ELSE fp[CHOOSE k \in 1..n :
                    /\ RLe(xp[k], x)
                    /\ \A m \in 1..n : RLe(xp[m], x) => m <= k]

\* numpy.interp(x, xp, fp) for one x: the greatest j with xp[j] <= x, then the
\* breakpoint's own value or the chord through (xp[j], fp[j]), (xp[j+1], fp[j+1]).
NpInterp(xp, fp, x) ==
    LET n == Len(xp)
    IN  IF RLt(x, xp[1]) THEN fp[1]
        ELSE IF RLt(xp[n], x) THEN fp[n]
        ELSE LET j == CHOOSE k \in 1..n :
                          /\ RLe(xp[k], x)
                          /\ \A m \in 1..n : RLe(xp[m], x) => m <= k
             IN  IF j = n THEN fp[j]
                 ELSE IF xp[j] = x THEN fp[j]
                 ELSE LET slope == RDiv(RSub(fp[j + 1], fp[j]), RSub(xp[j + 1], xp[j]))
                      IN  RAdd(RMul(slope, RSub(x, xp[j])), fp[j])

\* Interp1dCall without fill_value: what numpy.interp gives by itself, the
\* end rows' own percentiles outside the table.
Interp1dCallUnfilled(f, x) == NpInterp(f.x, f.y, x)

\* f(x) for an interp1d object f: interpolate, then overwrite out-of-bounds
\* arguments by the fill values (bounds_error=False).
Interp1dCall(f, x) ==
    LET n == Len(f.x)
        y_new == NpInterp(f.x, f.y, x)
    IN  IF RLt(x, f.x[1]) THEN f.fill[1]
        ELSE IF RLt(f.x[n], x) THEN f.fill[2]
        ELSE y_new

-----------------------------------------------------------------------------
(* IncomeDistributionComparator.__init__ / prepare_data                    *)

\* HasStandardizedData with any() for all(): one standardized column suffices.
HasAnyStandardizedColumn(df) ==
    \E i \in 2..Len(required_std_columns) : required_std_columns[i] \in Columns(df)

\* all(col in self.percentile_data.columns for col in required_std_columns)
HasStandardizedData(df) == \A i \in 1..Len(required_std_columns) :
                               required_std_columns[i] \in Columns(df)

\* FirstMissingRaw with the list walked backwards: the last missing column.
LastMissingRaw(df) ==
    IF \A i \in 1..Len(required_raw_columns) : required_raw_columns[i] \in Columns(df)
    THEN ""
    ELSE required_raw_columns[
             CHOOSE i \in 1..Len(required_raw_columns) :
                 /\ required_raw_columns[i] \notin Columns(df)
                 /\ \A j \in (i + 1)..Len(required_raw_columns) :
                        required_raw_columns[j] \in Columns(df)]

\* The first required raw column that is missing, in list order; "" if none.
FirstMissingRaw(df) ==
    IF \A i \in 1..Len(required_raw_columns) : required_raw_columns[i] \in Columns(df)
    THEN ""
    ELSE required_raw_columns[
             CHOOSE i \in 1..Len(required_raw_columns) :
                 /\ required_raw_columns[i] \notin Columns(df)
                 /\ \A j \in 1..(i - 1) : required_raw_columns[j] \in Columns(df)]

NoComparator ==
    [ppp_rate |-> R(0), has_standardized_data |-> FALSE,
     us_percentile_func |-> NoFunc, israel_percentile_func |-> NoFunc,
     us_std_percentile_func |-> NoFunc, israel_std_percentile_func |-> NoFunc]

\* The standardized part of prepare_data (runs only when has_standardized_data):
\* the DataFrame after it, the two mappings, and what was raised ("" if
\* nothing; KeyError when a column it reads does not exist).
PrepareStd(df, ppp_rate) ==
    IF ~({"Percentile", "US_Std_Income_USD", "Israel_Std_Income_ILS"} \subseteq Columns(df))
    THEN [raised |-> "KeyError", data |-> df, us_func |-> NoFunc, il_func |-> NoFunc]
    ELSE
    LET df2 == SetColumn(df, "Israel_Std_Income_USD",
                         SeriesDiv(df.col["Israel_Std_Income_ILS"], ppp_rate))
        us  == Interp1d(df2.col["US_Std_Income_USD"], df2.col["Percentile"], fill_value)
        il  == Interp1d(df2.col["Israel_Std_Income_USD"], df2.col["Percentile"], fill_value)
    IN  [raised |-> IF us.raised \/ il.raised THEN "ValueError" ELSE "",
         data |-> df2, us_func |-> us.func, il_func |-> il.func]

\* __init__(percentile_data, ppp_rate): what is raised ("" if nothing), the
\* column the message names, the DataFrame afterwards (the constructor writes
\* into the object it was given) and the comparator (meaningful if nothing
\* was raised).
PrepareData(df, ppp_rate) ==
    LET has_std == HasStandardizedData(df)
        missing == FirstMissingRaw(df)
    IN  IF missing # ""
        THEN [raised |-> "ValueError", column |-> missing, data |-> df,
              comparator |-> NoComparator]
        ELSE
        LET df1 == SetColumn(df, "Israel_Income_USD",
                             SeriesDiv(df.col["Israel_Income_ILS"], ppp_rate))
            us  == Interp1d(df1.col["US_Income_USD"], df1.col["Percentile"], fill_value)
            il  == Interp1d(df1.col["Israel_Income_USD"], df1.col["Percentile"], fill_value)
        IN  IF us.raised \/ il.raised
            THEN [raised |-> "ValueError", column |-> "", data |-> df1,
                  comparator |-> NoComparator]
            ELSE IF ~has_std
            THEN [raised |-> "", column |-> "", data |-> df1,
                  comparator |->
                      [ppp_rate |-> ppp_rate, has_standardized_data |-> FALSE,
                       us_percentile_func |-> us.func,
                       israel_percentile_func |-> il.func,
                       us_std_percentile_func |-> NoFunc,
                       israel_std_percentile_func |-> NoFunc]]
            ELSE LET std == PrepareStd(df1, ppp_rate)
                 IN  IF std.raised # ""
                     THEN [raised |-> std.raised, column |-> "", data |-> std.data,
                           comparator |-> NoComparator]
                     ELSE [raised |-> "", column |-> "", data |-> std.data,
                           comparator |->
                               [ppp_rate |-> ppp_rate, has_standardized_data |-> TRUE,
                                us_percentile_func |-> us.func,
                                israel_percentile_func |-> il.func,
                                us_std_percentile_func |-> std.us_func,
                                israel_std_percentile_func |-> std.il_func]]

-----------------------------------------------------------------------------
(* IncomeDistributionComparator.compare_income                             *)

\* UseStandardized without the has_standardized_data test.
UseStandardizedFlagOnly(c, standardized) == standardized

\* if standardized and self.has_standardized_data
UseStandardized(c, standardized) == standardized /\ c.has_standardized_data

NoResult ==
    [raised |-> "", income_usd |-> R(0), income_ils |-> R(0),
     us_percentile |-> R(0), israel_percentile |-> R(0),
     percentile_difference |-> R(0)]

\* IncomeIls with the conversion inverted: dollars divided by the rate.
IncomeIlsDivided(c, income_usd) == RDiv(income_usd, c.ppp_rate)

\* income_ils = income_usd * self.ppp_rate
IncomeIls(c, income_usd) == RMul(income_usd, c.ppp_rate)

\* PercentileDifference with the operands exchanged: US minus Israel.
PercentileDifferenceReversed(us_percentile, israel_percentile) ==
    RSub(us_percentile, israel_percentile)

\* 'percentile_difference': israel_percentile - us_percentile
PercentileDifference(us_percentile, israel_percentile) ==
    RSub(israel_percentile, us_percentile)

\* compare_income(income_usd, standardized) on comparator c: the dict it
\* returns, or raised = "AttributeError" when it reads a mapping that was
\* never built.
compare_income(c, income_usd, standardized) ==
    LET us_f == IF UseStandardized(c, standardized)
                THEN c.us_std_percentile_func ELSE c.us_percentile_func
        il_f == IF UseStandardized(c, standardized)
                THEN c.israel_std_percentile_func ELSE c.israel_percentile_func
    IN  IF ~us_f.set \/ ~il_f.set
        THEN [NoResult EXCEPT !.raised = "AttributeError"]
        ELSE LET us_percentile == Interp1dCall(us_f, income_usd)
                 israel_percentile == Interp1dCall(il_f, income_usd)
             IN  [raised |-> "",
                  income_usd |-> income_usd,
                  income_ils |-> IncomeIls(c, income_usd),
                  us_percentile |-> us_percentile,
                  israel_percentile |-> israel_percentile,
                  percentile_difference |->
                      PercentileDifference(us_percentile, israel_percentile)]

-----------------------------------------------------------------------------
(* IncomeDistributionComparator.create_percentile_table                    *)

\* (Percentile - target).abs() for one row
Distance(p, target) == RAbs(RSub(p, target))

\* ClosestIndices as a floor lookup: the last row at or below the target (the
\* first row when none is).
FloorIndex(pcts, target) ==
    IF \E i \in 1..Len(pcts) : RLe(pcts[i], target)
    THEN {CHOOSE i \in 1..Len(pcts) :
              /\ RLe(pcts[i], target)
              /\ \A j \in 1..Len(pcts) : RLe(pcts[j], target) => RLe(pcts[j], pcts[i])}
    ELSE {i \in 1..Len(pcts) : i = 1}

\* The row indices argsort()[0] can return for a target: argsort orders the
\* distances with an unstable sort, so its first entry is some row of least
\* distance (the only one, when there is no tie).
ClosestIndices(pcts, target) ==
    {i \in 1..Len(pcts) :
        \A j \in 1..Len(pcts) : RLe(Distance(pcts[i], target), Distance(pcts[j], target))}

\* IsinRows as a row-by-row lookup: one row per entry of the list, in list
\* order, repeated when the list repeats.
RowPerTarget(pcts, closest, k) ==
    [t \in 1..Len(closest) |-> CHOOSE i \in 1..k : pcts[i] = closest[t]]

\* DataFrame[Percentile.isin(closest_percentiles)]: the indices of the rows
\* kept, in table order; a row is kept once however often its percentile is
\* listed.
RECURSIVE IsinRows(_, _, _)
IsinRows(pcts, closest, k) ==
    IF k = 0 THEN <<>>
    ELSE IF pcts[k] \in Range(closest)
         THEN Append(IsinRows(pcts, closest, k - 1), k)
         ELSE IsinRows(pcts, closest, k - 1)

\* Divider with the two periods exchanged.
DividerExchanged(period) == IF period = "annual" THEN R(12) ELSE R(1)

\* divider = 1 if period == "annual" else 12
Divider(period) == IF period = "annual" THEN R(1) ELSE R(12)

\* SelectColumns by the flag alone, without the has_standardized_data test.
SelectColumnsFlagOnly(c, standardized) ==
    IF standardized
    THEN <<"US_Std_Income_USD", "Israel_Std_Income_ILS", "Israel_Std_Income_USD">>
    ELSE <<"US_Income_USD", "Israel_Income_ILS", "Israel_Income_USD">>

\* The three columns the table is built from (US, Israel ILS, Israel USD-PPP).
SelectColumns(c, standardized) ==
    IF UseStandardized(c, standardized)
    THEN <<"US_Std_Income_USD", "Israel_Std_Income_ILS", "Israel_Std_Income_USD">>
    ELSE <<"US_Income_USD", "Israel_Income_ILS", "Israel_Income_USD">>

\* BuildTable with the ratio taken against the Israel income in ILS.
BuildTableRatioToIls(df, rows, cols, divider) ==
    [r \in 1..Len(rows) |->
        [Percentile |-> df.col["Percentile"][rows[r]],
         us_income |-> RDiv(df.col[cols[1]][rows[r]], divider),
         il_income_ils |-> RDiv(df.col[cols[2]][rows[r]], divider),
         il_income_usd |-> RDiv(df.col[cols[3]][rows[r]], divider),
         ratio |-> RDiv(df.col[cols[1]][rows[r]], df.col[cols[2]][rows[r]])]]

\* The table built from the rows kept (pd.DataFrame({...})), one record per row.
BuildTable(df, rows, cols, divider) ==
    [r \in 1..Len(rows) |->
        [Percentile |-> df.col["Percentile"][rows[r]],
         us_income |-> RDiv(df.col[cols[1]][rows[r]], divider),
         il_income_ils |-> RDiv(df.col[cols[2]][rows[r]], divider),
         il_income_usd |-> RDiv(df.col[cols[3]][rows[r]], divider),
         ratio |-> RDiv(df.col[cols[1]][rows[r]], df.col[cols[3]][rows[r]])]]

\* create_percentile_table(selected_percentiles, period, standardized) on
\* comparator c over the DataFrame df, given the row index argsort()[0]
\* returned for each target: the closest percentiles and the table, or
\* raised = "KeyError" when a column it reads does not exist.
create_percentile_table(c, df, selected_percentiles, pick, period, standardized) ==
    LET pcts == df.col["Percentile"]
        closest_percentiles ==
            [t \in 1..Len(selected_percentiles) |-> pcts[pick[t]]]
        filtered == IsinRows(pcts, closest_percentiles, Len(pcts))
        cols == SelectColumns(c, standardized)
    IN  IF ~(Range(cols) \subseteq Columns(df))
        THEN [raised |-> "KeyError", closest |-> closest_percentiles,
              rows |-> filtered, table |-> <<>>]
        ELSE [raised |-> "", closest |-> closest_percentiles, rows |-> filtered,
              table |-> BuildTable(df, filtered, cols, Divider(period))]

-----------------------------------------------------------------------------
(* standardize_income                                                      *)

\* Decimal places the model's square roots carry are those of 1 / SqrtScale
\* (math.sqrt returns the nearest double; the model the greatest multiple of
\* 1 / SqrtScale that is not above the root, exact for perfect squares).
SqrtScale == 100

\* math.sqrt(n) for an integer n >= 0
Sqrt(n) ==
    LET m == CHOOSE k \in 0..(n * SqrtScale) :
                 /\ k * k <= n * SqrtScale * SqrtScale
                 /\ (k + 1) * (k + 1) > n * SqrtScale * SqrtScale
    IN  Norm(m, SqrtScale)

\* standardize_income as a per-head scale: income / household_size.
standardize_income_per_head(income, household_size) ==
    IF household_size <= 0 THEN income
    ELSE RDiv(income, R(household_size))

\* standardize_income(income, household_size)
standardize_income(income, household_size) ==
    IF household_size <= 0 THEN income
    ELSE RDiv(income, Sqrt(household_size))

-----------------------------------------------------------------------------
(* main(): the texts it chooses and the period it passes on                *)

\* translations[lang]["annual"], translations[lang]["monthly"]: the labels of
\* the income period selector.
translations ==
    [en |-> [annual |-> "Annual", monthly |-> "Monthly"],
     he |-> [annual |-> "שנתי", monthly |-> "חודשי"]]

\* str.lower(): the cased letters of the labels above go to lower case; the
\* Hebrew letters have no case and stay.
Lower(label) ==
    CASE label = "Annual" -> "annual"
      [] label = "Monthly" -> "monthly"
      [] OTHER -> label

\* Interpretation with the boundary counted as similar: abs(d) <= 3.
InterpretationClosed(d) ==
    IF RLe(RAbs(d), R(3))
    THEN [message |-> "similar_position", value |-> R(0)]
    ELSE IF RLt(R(0), d)
    THEN [message |-> "higher_in_il", value |-> d]
    ELSE [message |-> "higher_in_us", value |-> RAbs(d)]

\* The interpretation of result['percentile_difference']: the key of the text
\* chosen and the number formatted into it (none for similar_position).
Interpretation(d) ==
    IF RLt(RAbs(d), R(3))
    THEN [message |-> "similar_position", value |-> R(0)]
    ELSE IF RLt(R(0), d)
    THEN [message |-> "higher_in_il", value |-> d]
    ELSE [message |-> "higher_in_us", value |-> RAbs(d)]

\* StandardizeWarning without the test of the data: shown whenever the
\* standardized comparison is asked for.
StandardizeWarningOnRequest(standardize, has_standardized_data) == standardize

\* if standardize and not has_standardized_data: st.warning(...)
StandardizeWarning(standardize, has_standardized_data) ==
    standardize /\ ~has_standardized_data

\* Whether the position panel carries the text t["using_precalc"]:
\* (standardize and has_standardized_data)
UsingPrecalc(standardize, has_standardized_data) ==
    standardize /\ has_standardized_data

\* The figures of the standardized-income panel: computed by the same four
\* lines in the branch for standardize and in the branch for raw.
StdFigures(standardize, annual_income_usd, annual_income_ils, household_size) ==
    IF standardize
    THEN LET usd == standardize_income(annual_income_usd, household_size)
             ils == standardize_income(annual_income_ils, household_size)
         IN  [std_annual_income_usd |-> usd, std_annual_income_ils |-> ils,
              std_monthly_income_usd |-> RDiv(usd, R(12)),
              std_monthly_income_ils |-> RDiv(ils, R(12))]
    ELSE LET usd == standardize_income(annual_income_usd, household_size)
             ils == standardize_income(annual_income_ils, household_size)
         IN  [std_annual_income_usd |-> usd, std_annual_income_ils |-> ils,
              std_monthly_income_usd |-> RDiv(usd, R(12)),
              std_monthly_income_ils |-> RDiv(ils, R(12))]

\* CalculationIncome that ignores the flag: always the raw annual income.
CalculationIncomeRaw(standardize, annual_income_usd, std_annual_income_usd) ==
    annual_income_usd

\* calculation_income_usd: the standardized annual income when standardize is
\* set, the raw annual income otherwise.
CalculationIncome(standardize, annual_income_usd, std_annual_income_usd) ==
    IF standardize THEN std_annual_income_usd ELSE annual_income_usd

\* selected_percentiles=[10, 25, 50, 75, 90, 95], the default main() leaves
\* in place.
default_selected_percentiles == <<R(10), R(25), R(50), R(75), R(90), R(95)>>

-----------------------------------------------------------------------------
(* Inputs                                                                  *)

InputColumns == {"Percentile", "US_Income_USD", "Israel_Income_ILS",
                 "US_Std_Income_USD", "Israel_Std_Income_ILS"}

PercentileVals == {R(1), R(50), R(100)}
UsdVals == {R(20), R(40)}
IlsVals == {R(37), R(148)}
StdUsdVals == {R(10), R(20)}
StdIlsVals == {R(37), R(74)}
PppRates == {<<37, 10>>, R(2)}
IncomeVals == {R(5), R(20), R(30), R(40), R(80)}
TargetVals == {R(50), R(75)}
Periods == {"annual", "monthly"}

\* A DataFrame: its number of rows and its columns, name -> values.
MkFrame(n, p, us, il) ==
    [nrows |-> n,
     col |-> [c \in {"Percentile", "US_Income_USD", "Israel_Income_ILS"} |->
                 CASE c = "Percentile" -> p
                   [] c = "US_Income_USD" -> us
                   [] OTHER -> il]]

\* Percentile columns of n rows: ascending and without duplicates, as in a
\* percentile table.
PercentileColumns(n) ==
    {s \in [1..n -> PercentileVals] : \A i, j \in 1..n : i < j => RLt(s[i], s[j])}

\* Tables of up to MaxRows rows with the three raw columns only, the income
\* columns in any order.
RawTables(n) ==
    {MkFrame(n, p, us, il) : p \in PercentileColumns(n),
                             us \in [1..n -> UsdVals],
                             il \in [1..n -> IlsVals]}

\* Tables that also carry the two standardized columns, in any order, beside
\* increasing raw columns.
StdTables(n) ==
    {SetColumn(SetColumn(MkFrame(n, p, [i \in 1..n |-> R(20 * i)],
                                       [i \in 1..n |-> R(37 * (2 * i - 1))]),
                         "US_Std_Income_USD", us_std),
               "Israel_Std_Income_ILS", il_std) :
         p \in PercentileColumns(n),
         us_std \in [1..n -> StdUsdVals],
         il_std \in [1..n -> StdIlsVals]}

\* One two-row table cut down to every subset of the five input columns.
FullTable ==
    [nrows |-> 2,
     col |-> [c \in InputColumns |->
                 CASE c = "Percentile" -> <<R(1), R(50)>>
                   [] c = "US_Income_USD" -> <<R(20), R(40)>>
                   [] c = "Israel_Income_ILS" -> <<R(37), R(148)>>
                   [] c = "US_Std_Income_USD" -> <<R(10), R(20)>>
                   [] OTHER -> <<R(37), R(74)>>]]

PartialTables ==
    {[nrows |-> 2, col |-> [c \in cols |-> FullTable.col[c]]] : cols \in SUBSET InputColumns}

\* The table of the specification's scenarios (section 8, properties 6 and 7).
ScenarioTable ==
    MkFrame(3, <<R(10), R(50), R(90)>>,
               <<R(20000), R(50000), R(120000)>>,
               <<R(74000), R(185000), R(444000)>>)

ScenarioIncomes == {R(500), R(20000), R(50000)}

\* Two tables whose Israel series, at PPP rate 3.7, is the US series moved by
\* one row: the percentile difference is 3 points, or -3, at the rows.
InterpretationTables ==
    {MkFrame(3, <<R(47), R(50), R(53)>>, <<R(20), R(40), R(80)>>,
                <<R(37), R(74), R(148)>>),
     MkFrame(3, <<R(47), R(50), R(53)>>, <<R(10), R(20), R(40)>>,
                <<R(74), R(148), R(296)>>)}

\* household_size: the sizes the form offers (from 1) and, for direct calls
\* of standardize_income, sizes that are not positive.
HouseholdSizes == {-1, 0, 1, 2, 4}

\* available_languages.values()
Languages == {"en", "he"}

\* The incomes asked about: on the scale of the table that was loaded.
QueryIncomes ==
    IF original_data = ScenarioTable THEN ScenarioIncomes ELSE IncomeVals

Tables ==
    UNION {RawTables(n) \cup StdTables(n) : n \in 0..MaxRows}
        \cup PartialTables \cup {ScenarioTable} \cup InterpretationTables

TargetSeqs == UNION {[1..n -> TargetVals] : n \in 0..MaxTargets}

-----------------------------------------------------------------------------
(* The state machine: one session of main()                                *)

NoLast ==
    [op |-> "load", k |-> 0, raised |-> "", column |-> "", ppp_rate |-> R(0),
     annual_income_usd |-> R(0), household_size |-> 0,
     std_annual_income_usd |-> R(0), std_annual_income_ils |-> R(0),
     std_monthly_income_usd |-> R(0), std_monthly_income_ils |-> R(0),
     warning |-> FALSE, using_precalc |-> FALSE,
     income_usd |-> R(0), standardized |-> FALSE, result |-> NoResult,
     interpretation |-> [message |-> "", value |-> R(0)],
     selected_lang |-> "", income_period |-> "",
     selected_percentiles |-> <<>>, pick |-> <<>>, period |-> "",
     closest |-> <<>>, rows |-> <<>>, table |-> <<>>]

\* data.csv holds some table; nothing has been constructed.
Init ==
    /\ original_data \in Tables
    /\ percentile_data = original_data
    /\ comparators = <<>>
    /\ last = NoLast

\* No call is in progress and nothing returned waits to be taken: the caller
\* is free to make the next call.
Idle == last.op \in {"load", "returned"}

\* percentile_data = pd.read_csv("data.csv");
\* comparator = IncomeDistributionComparator(percentile_data, ppp_rate, is_rtl)
\* A run of main() reads the file afresh and holds the one comparator it
\* constructs; when the constructor raises, the run stops without one.
Construct(ppp_rate) ==
    /\ Idle
    /\ \E out \in {PrepareData(original_data, ppp_rate)} :
           /\ percentile_data' = out.data
           /\ comparators' = IF out.raised = "" THEN <<out.comparator>> ELSE <<>>
           /\ last' = [NoLast EXCEPT !.op = "construct",
                                     !.k = Len(comparators'),
                                     !.ppp_rate = ppp_rate,
                                     !.raised = out.raised,
                                     !.column = out.column]
    /\ UNCHANGED original_data

\* comparator = IncomeDistributionComparator(percentile_data, ppp_rate) on the
\* DataFrame object an earlier comparator was built from, at another rate (a
\* caller that rebuilds on a PPP-rate change and keeps the table it loaded).
Rebuild(ppp_rate) ==
    /\ Idle
    /\ Len(comparators) \in 1..(MaxComparators - 1)
    /\ ppp_rate # comparators[Len(comparators)].ppp_rate
    /\ \E out \in {PrepareData(percentile_data, ppp_rate)} :
           /\ percentile_data' = out.data
           /\ comparators' = IF out.raised = "" THEN Append(comparators, out.comparator)
                              ELSE comparators
           /\ last' = [NoLast EXCEPT !.op = "rebuild",
                                     !.k = Len(comparators'),
                                     !.ppp_rate = ppp_rate,
                                     !.raised = out.raised,
                                     !.column = out.column]
    /\ UNCHANGED original_data

\* The comparison of main() for an annual income in USD (annual_income_ils is
\* that income at the PPP rate of the form, the rate of the comparator): the
\* warning, the figures of the standardized panel, the income the comparison
\* is made for, comparators[k].compare_income(calculation_income_usd,
\* standardize), the note on the distributions used and the interpretation.
Compare(k, annual_income_usd, household_size, standardized) ==
    /\ Idle
    /\ k \in 1..Len(comparators)
    /\ \E has_standardized_data \in {comparators[k].has_standardized_data} :
       \E annual_income_ils \in {RMul(annual_income_usd, comparators[k].ppp_rate)} :
       \E std \in {StdFigures(standardized, annual_income_usd, annual_income_ils,
                              household_size)} :
       \E calculation_income_usd \in
              {CalculationIncome(standardized, annual_income_usd,
                                 std.std_annual_income_usd)} :
       \E res \in {compare_income(comparators[k], calculation_income_usd, standardized)} :
           last' = [NoLast EXCEPT !.op = "compare", !.k = k,
                                  !.raised = res.raised,
                                  !.warning =
                                      StandardizeWarning(standardized, has_standardized_data),
                                  !.annual_income_usd = annual_income_usd,
                                  !.household_size = household_size,
                                  !.std_annual_income_usd = std.std_annual_income_usd,
                                  !.std_annual_income_ils = std.std_annual_income_ils,
                                  !.std_monthly_income_usd = std.std_monthly_income_usd,
                                  !.std_monthly_income_ils = std.std_monthly_income_ils,
                                  !.income_usd = calculation_income_usd,
                                  !.standardized = standardized,
                                  !.result = res,
                                  !.using_precalc =
                                      res.raised = ""
                                      /\ UsingPrecalc(standardized, has_standardized_data),
                                  !.interpretation =
                                      IF res.raised = ""
                                      THEN Interpretation(res.percentile_difference)
                                      ELSE NoLast.interpretation]
    /\ UNCHANGED <<percentile_data, original_data, comparators>>

\* What the loop over the targets can leave in the list of row indices: for
\* each of the first n targets, one of the rows argsort()[0] can return.
RECURSIVE ArgsortFirsts(_, _, _)
ArgsortFirsts(pcts, selected_percentiles, n) ==
    IF n = 0 THEN {<<>>}
    ELSE {Append(p, i) : p \in ArgsortFirsts(pcts, selected_percentiles, n - 1),
                         i \in ClosestIndices(pcts, selected_percentiles[n])}

\* CreateTable with the filter assigned back to the comparator's table
\* (self.percentile_data = self.percentile_data[...isin(...)]).
CreateTableKeepingFilter(k, selected_percentiles, period, standardized) ==
    /\ Idle
    /\ k \in 1..Len(comparators)
    /\ \E pick \in ArgsortFirsts(percentile_data.col["Percentile"],
                                 selected_percentiles, Len(selected_percentiles)) :
       \E out \in {create_percentile_table(comparators[k], percentile_data,
                       selected_percentiles, pick, period, standardized)} :
          /\ last' = [NoLast EXCEPT !.op = "table", !.k = k,
                                    !.raised = out.raised,
                                    !.standardized = standardized,
                                    !.selected_percentiles = selected_percentiles,
                                    !.pick = pick,
                                    !.period = period,
                                    !.closest = out.closest,
                                    !.rows = out.rows,
                                    !.table = out.table]
          /\ percentile_data' =
                 [nrows |-> Len(out.rows),
                  col |-> [c \in Columns(percentile_data) |->
                              [r \in 1..Len(out.rows) |->
                                  percentile_data.col[c][out.rows[r]]]]]
    /\ UNCHANGED <<original_data, comparators>>

\* comparators[k].create_percentile_table(selected_percentiles, period, standardized)
CreateTable(k, selected_percentiles, period, standardized) ==
    /\ Idle
    /\ k \in 1..Len(comparators)
    /\ \E pick \in ArgsortFirsts(percentile_data.col["Percentile"],
                                 selected_percentiles, Len(selected_percentiles)) :
       \E out \in {create_percentile_table(comparators[k], percentile_data,
                       selected_percentiles, pick, period, standardized)} :
          last' = [NoLast EXCEPT !.op = "table", !.k = k,
                                 !.raised = out.raised,
                                 !.standardized = standardized,
                                 !.selected_percentiles = selected_percentiles,
                                 !.pick = pick,
                                 !.period = period,
                                 !.closest = out.closest,
                                 !.rows = out.rows,
                                 !.table = out.table]
    /\ UNCHANGED <<percentile_data, original_data, comparators>>

\* The key-percentile table of main(), for the language and the income period
\* chosen in the form:
\* comparator.create_percentile_table(period=income_period.lower(),
\*                                    standardized=standardize, lang=selected_lang)
KeyThresholds(k, selected_lang, income_period, standardized) ==
    /\ Idle
    /\ k \in 1..Len(comparators)
    /\ \E period \in {Lower(income_period)} :
       \E pick \in ArgsortFirsts(percentile_data.col["Percentile"],
                                 default_selected_percentiles,
                                 Len(default_selected_percentiles)) :
       \E out \in {create_percentile_table(comparators[k], percentile_data,
                       default_selected_percentiles, pick, period, standardized)} :
          last' = [NoLast EXCEPT !.op = "table", !.k = k,
                                 !.raised = out.raised,
                                 !.standardized = standardized,
                                 !.selected_percentiles = default_selected_percentiles,
                                 !.pick = pick,
                                 !.period = period,
                                 !.selected_lang = selected_lang,
                                 !.income_period = income_period,
                                 !.closest = out.closest,
                                 !.rows = out.rows,
                                 !.table = out.table]
    /\ UNCHANGED <<percentile_data, original_data, comparators>>

\* The caller takes what the last call returned or raised (main() shows it);
\* the next call can be made.
Return ==
    /\ ~Idle
    /\ last' = [NoLast EXCEPT !.op = "returned"]
    /\ UNCHANGED <<percentile_data, original_data, comparators>>

Next ==
    \/ \E ppp_rate \in PppRates : Construct(ppp_rate)
    \/ \E ppp_rate \in PppRates : Rebuild(ppp_rate)
    \/ \E k \in 1..Len(comparators), x \in QueryIncomes,
          household_size \in HouseholdSizes, standardized \in BOOLEAN :
              Compare(k, x, household_size, standardized)
    \/ \E k \in 1..Len(comparators), targets \in TargetSeqs, period \in Periods,
          standardized \in BOOLEAN : CreateTable(k, targets, period, standardized)
    \/ \E k \in 1..Len(comparators), selected_lang \in Languages,
          standardized \in BOOLEAN :
              \E income_period \in {translations[selected_lang].annual,
                                    translations[selected_lang].monthly} :
                  KeyThresholds(k, selected_lang, income_period, standardized)
    \/ Return

Spec == Init /\ [][Next]_vars

-----------------------------------------------------------------------------
(* Vocabulary of the properties                                            *)

\* The comparator the last operation was called on.
LastComparator == comparators[last.k]

Compared == last.op = "compare"
Constructed == last.op = "construct" /\ last.raised = ""
Tabled == last.op = "table"

\* Whether the table read from the file carries the standardized columns.
TableHasStd ==
    {"Percentile", "US_Std_Income_USD", "Israel_Std_Income_ILS"}
        \subseteq Columns(original_data)

\* The series of the last comparison, read off the table as it was loaded:
\* the percentile column and the incomes in USD of the US and Israel series
\* that the call's standardized flag selects.
LastUsesStd == last.standardized /\ TableHasStd
LastPercentiles == original_data.col["Percentile"]
LastUsIncomes ==
    IF LastUsesStd THEN original_data.col["US_Std_Income_USD"]
    ELSE original_data.col["US_Income_USD"]
LastIlIncomes ==
    LET ils == IF LastUsesStd THEN original_data.col["Israel_Std_Income_ILS"]
               ELSE original_data.col["Israel_Income_ILS"]
    IN  [i \in 1..Len(ils) |-> RDiv(ils[i], LastComparator.ppp_rate)]

BelowAll(x, incomes) == \A i \in 1..Len(incomes) : RLt(x, incomes[i])
AboveAll(x, incomes) == \A i \in 1..Len(incomes) : RLt(incomes[i], x)
StrictlyIncreasing(s) == \A i, j \in 1..Len(s) : i < j => RLt(s[i], s[j])
InRange(p, lo, hi) == RLe(R(lo), p) /\ RLe(p, R(hi))

-----------------------------------------------------------------------------
(* C1 - boundary clamping                                                  *)

\* C1: for each series a comparison reads (raw or standardized, US and
\* Israel), an income below every table income of the series gets percentile
\* 1 and an income above every table income of the series gets percentile 99.
C1_BoundaryClamping ==
    Compared =>
        /\ last.raised = ""
        /\ BelowAll(last.income_usd, LastUsIncomes) => last.result.us_percentile = R(1)
        /\ AboveAll(last.income_usd, LastUsIncomes) => last.result.us_percentile = R(99)
        /\ BelowAll(last.income_usd, LastIlIncomes) => last.result.israel_percentile = R(1)
        /\ AboveAll(last.income_usd, LastIlIncomes) => last.result.israel_percentile = R(99)

\* A standardized comparison of an income that lies above the whole US
\* series and, at the same time, inside the Israel series.
C1_Witness ==
    /\ Compared
    /\ LastUsesStd
    /\ AboveAll(last.income_usd, LastUsIncomes)
    /\ ~AboveAll(last.income_usd, LastIlIncomes)
    /\ ~BelowAll(last.income_usd, LastIlIncomes)
    /\ last.result.us_percentile = R(99)
    /\ last.result.israel_percentile # R(99)

-----------------------------------------------------------------------------
(* C2 - monotonicity                                                       *)

\* C2: when the percentile column (two rows or more, all within (0, 100], as
\* every table here) is ascending without duplicates and a
\* series' incomes are strictly increasing in percentile, the percentile of
\* that series never decreases as the income grows, over all incomes: the
\* last comparison's percentile is <= that of every income above it.
C2_Monotone ==
    Compared /\ last.raised = "" /\ Len(LastPercentiles) >= 2
             /\ StrictlyIncreasing(LastPercentiles) =>
        \A x2 \in QueryIncomes :
            RLe(last.income_usd, x2) =>
                LET r2 == compare_income(LastComparator, x2, last.standardized)
                IN  /\ StrictlyIncreasing(LastUsIncomes) =>
                           RLe(last.result.us_percentile, r2.us_percentile)
                    /\ StrictlyIncreasing(LastIlIncomes) =>
                           RLe(last.result.israel_percentile, r2.israel_percentile)

-----------------------------------------------------------------------------
(* C3 - mapping selection and fallback                                     *)

\* C3: a comparison never raises; it evaluates the standardized pair of
\* mappings exactly when standardized was asked for and the comparator has
\* standardized data, and the raw pair otherwise; on a comparator without
\* standardized data the result is, field for field, the result of the same
\* call with the flag inverted.
C3_SelectionAndFallback ==
    Compared =>
        LET c == LastComparator
            x == last.income_usd
            std == last.standardized /\ c.has_standardized_data
            us_f == IF std THEN c.us_std_percentile_func ELSE c.us_percentile_func
            il_f == IF std THEN c.israel_std_percentile_func ELSE c.israel_percentile_func
        IN  /\ last.raised = ""
            /\ us_f.set /\ il_f.set
            /\ last.result.us_percentile = Interp1dCall(us_f, x)
            /\ last.result.israel_percentile = Interp1dCall(il_f, x)
            /\ ~c.has_standardized_data =>
                   last.result = compare_income(c, x, ~last.standardized)

\* standardized = TRUE on a table without standardized columns: the raw pair
\* answered.
C3_WitnessFallback ==
    /\ Compared
    /\ last.standardized
    /\ ~LastComparator.has_standardized_data
    /\ last.raised = ""
    /\ InRange(last.result.us_percentile, 2, 98)

-----------------------------------------------------------------------------
(* C4 - range of the percentiles returned                                  *)

\* C4: every percentile a comparison returns lies in [1, 99] and no income
\* raises, for a table of two rows or more whose percentile column is
\* ascending, without duplicates and within (0, 100].
C4_PercentileRange ==
    Compared /\ Len(LastPercentiles) >= 2 /\ StrictlyIncreasing(LastPercentiles)
             /\ (\A i \in 1..Len(LastPercentiles) :
                     RLt(R(0), LastPercentiles[i]) /\ RLe(LastPercentiles[i], R(100))) =>
        /\ last.raised = ""
        /\ InRange(last.result.us_percentile, 1, 99)
        /\ InRange(last.result.israel_percentile, 1, 99)

-----------------------------------------------------------------------------
(* C5 - duplicate targets                                                  *)

\* C5 as claimed: the table has one row per target, so as many rows as
\* targets, also when two targets snap to the same reference row.
C5_OneRowPerTarget ==
    Tabled /\ last.raised = "" => Len(last.table) = Len(last.selected_percentiles)

\* C5 as amended: on a table whose percentiles are unique, the result holds
\* each row some target snapped to exactly once and in table order, so it has
\* as many rows as there are distinct snapped rows, at most the number of
\* targets.
C5_SnappedRowsOnce ==
    Tabled /\ last.raised = "" =>
        /\ Len(last.table) = Cardinality(Range(last.pick))
        /\ Len(last.table) <= Len(last.selected_percentiles)
        /\ \A r1, r2 \in 1..Len(last.table) :
               r1 < r2 => RLt(last.table[r1].Percentile, last.table[r2].Percentile)
        /\ {last.table[r].Percentile : r \in 1..Len(last.table)}
               = {original_data.col["Percentile"][last.pick[t]] :
                      t \in 1..Len(last.pick)}

\* Two targets snapped to the same row and the table has that single row.
C5_Witness ==
    /\ Tabled
    /\ last.raised = ""
    /\ Len(last.selected_percentiles) = 2
    /\ last.pick[1] = last.pick[2]
    /\ Len(last.table) = 1

-----------------------------------------------------------------------------
(* C6 - nearest-neighbour snap                                             *)

\* The rows of least distance to a target, from the loaded table.
IsNearest(i, target) ==
    \A j \in 1..original_data.nrows :
        RLe(Distance(original_data.col["Percentile"][i], target),
            Distance(original_data.col["Percentile"][j], target))

\* C6 as claimed: each target selects a row of least distance and, of the
\* rows at that distance, the first in table order.
C6_NearestFirstOnTie ==
    Tabled =>
        \A t \in 1..Len(last.selected_percentiles) :
            /\ IsNearest(last.pick[t], last.selected_percentiles[t])
            /\ \A j \in 1..original_data.nrows :
                   IsNearest(j, last.selected_percentiles[t]) => last.pick[t] <= j

\* C6 as amended: each target selects a row whose percentile is at least
\* distance from it (one of them when several rows are equidistant), and a
\* target equal to a row's percentile selects that row.
C6_Nearest ==
    Tabled =>
        /\ Len(last.closest) = Len(last.selected_percentiles)
        /\ \A t \in 1..Len(last.selected_percentiles) :
               /\ \E i \in 1..original_data.nrows :
                      /\ last.closest[t] = original_data.col["Percentile"][i]
                      /\ IsNearest(i, last.selected_percentiles[t])
               /\ last.selected_percentiles[t] \in Range(original_data.col["Percentile"])
                      => last.closest[t] = last.selected_percentiles[t]

\* One target hit a row exactly and another snapped to a row at a distance,
\* with a nearer row on neither side.
C6_Witness ==
    /\ Tabled
    /\ Len(last.selected_percentiles) = 2
    /\ last.closest[1] = last.selected_percentiles[1]
    /\ last.closest[2] # last.selected_percentiles[2]
    /\ last.closest[2] # last.closest[1]
    /\ original_data.nrows >= 2

-----------------------------------------------------------------------------
(* C7 - series with fewer than two distinct incomes                        *)

\* The income series construction builds a mapping for, as loaded.
RawSeriesDegenerate ==
    \/ Cardinality(Range(original_data.col["US_Income_USD"])) < 2
    \/ Cardinality(Range(original_data.col["Israel_Income_ILS"])) < 2

\* C7: with the raw columns present, construction raises and leaves no
\* comparator whenever a raw series has fewer than two distinct incomes (two
\* or more rows of one income included).
C7_DegenerateSeriesRaises ==
    /\ last.op = "construct"
    /\ FirstMissingRaw(original_data) = ""
    /\ original_data.nrows >= 2
    /\ RawSeriesDegenerate
    => last.raised # "" /\ comparators = <<>>

-----------------------------------------------------------------------------
(* C8 - missing raw column                                                 *)

\* C8: when a raw column is absent, construction raises the error naming the
\* first absent one in the order Percentile, US_Income_USD,
\* Israel_Income_ILS; no comparator exists afterwards and the table has no
\* derived column.
C8_SchemaError ==
    /\ last.op = "construct"
    /\ ~({"Percentile", "US_Income_USD", "Israel_Income_ILS"} \subseteq Columns(original_data))
    => /\ last.raised = "ValueError"
       /\ last.column = (IF "Percentile" \notin Columns(original_data)
                         THEN "Percentile"
                         ELSE IF "US_Income_USD" \notin Columns(original_data)
                         THEN "US_Income_USD"
                         ELSE "Israel_Income_ILS")
       /\ comparators = <<>>
       /\ percentile_data = original_data

\* Construction failed on a table that lacks two raw columns and named the
\* earlier one.
C8_Witness ==
    /\ last.op = "construct"
    /\ "Percentile" \in Columns(original_data)
    /\ "US_Income_USD" \notin Columns(original_data)
    /\ "Israel_Income_ILS" \notin Columns(original_data)
    /\ last.raised = "ValueError"
    /\ last.column = "US_Income_USD"

-----------------------------------------------------------------------------
(* C9 - has_standardized_data                                              *)

ExactlyOneStdColumn ==
    ("US_Std_Income_USD" \in Columns(original_data))
        # ("Israel_Std_Income_ILS" \in Columns(original_data))

\* C9: a constructed comparator's has_standardized_data is true exactly when
\* the table carries Percentile and both standardized columns, and it holds
\* standardized mappings (and the table a derived standardized column)
\* exactly then; a table with the raw columns, a row and just one
\* standardized column constructs, with the flag false.
C9_HasStandardizedData ==
    /\ Constructed =>
           /\ LastComparator.has_standardized_data = TableHasStd
           /\ LastComparator.us_std_percentile_func.set = TableHasStd
           /\ LastComparator.israel_std_percentile_func.set = TableHasStd
           /\ ("Israel_Std_Income_USD" \in Columns(percentile_data)) = TableHasStd
    /\ /\ last.op = "construct"
       /\ {"Percentile", "US_Income_USD", "Israel_Income_ILS"} \subseteq Columns(original_data)
       /\ original_data.nrows >= 1
       /\ ExactlyOneStdColumn
       => /\ last.raised = ""
          /\ Len(comparators) = 1
          /\ ~LastComparator.has_standardized_data

\* A table with only US_Std_Income_USD was constructed, without standardized
\* mappings.
C9_Witness ==
    /\ Constructed
    /\ "US_Std_Income_USD" \in Columns(original_data)
    /\ "Israel_Std_Income_ILS" \notin Columns(original_data)
    /\ ~LastComparator.has_standardized_data
    /\ ~LastComparator.us_std_percentile_func.set

-----------------------------------------------------------------------------
(* C10 - exact breakpoints                                                 *)

\* C10: in a series whose incomes strictly increase down the table, an income
\* equal to a row's income in USD gets that row's percentile; on the scenario
\* table at PPP rate 3.7 the raw comparison of 50000 gives 50 / 50 /
\* difference 0, that of 20000 gives US 10 and that of 500 gives US 1.
C10_ExactBreakpoints ==
    Compared /\ last.raised = "" =>
        /\ StrictlyIncreasing(LastUsIncomes) =>
               \A i \in 1..Len(LastUsIncomes) :
                   last.income_usd = LastUsIncomes[i] =>
                       last.result.us_percentile = LastPercentiles[i]
        /\ StrictlyIncreasing(LastIlIncomes) =>
               \A i \in 1..Len(LastIlIncomes) :
                   last.income_usd = LastIlIncomes[i] =>
                       last.result.israel_percentile = LastPercentiles[i]
        /\ /\ original_data = ScenarioTable
           /\ LastComparator.ppp_rate = <<37, 10>>
           /\ ~last.standardized
           => /\ last.income_usd = R(50000) =>
                     /\ last.result.us_percentile = R(50)
                     /\ last.result.israel_percentile = R(50)
                     /\ last.result.percentile_difference = R(0)
              /\ last.income_usd = R(20000) => last.result.us_percentile = R(10)
              /\ last.income_usd = R(500) => last.result.us_percentile = R(1)

\* The scenario's comparison of 50000 at rate 3.7.
C10_Witness ==
    /\ Compared
    /\ original_data = ScenarioTable
    /\ LastComparator.ppp_rate = <<37, 10>>
    /\ ~last.standardized
    /\ last.income_usd = R(50000)
    /\ last.result.israel_percentile = R(50)

-----------------------------------------------------------------------------
(* Vocabulary of the table properties                                      *)

\* The columns the last table was built from, by the fallback rule, and the
\* reference row (of the comparator's DataFrame) behind output row r.
LastTableUsesStd == last.standardized /\ LastComparator.has_standardized_data
LastUsCol == IF LastTableUsesStd THEN "US_Std_Income_USD" ELSE "US_Income_USD"
LastIlsCol == IF LastTableUsesStd THEN "Israel_Std_Income_ILS" ELSE "Israel_Income_ILS"
LastUsdCol == IF LastTableUsesStd THEN "Israel_Std_Income_USD" ELSE "Israel_Income_USD"
RefValue(column, r) == percentile_data.col[column][last.rows[r]]

-----------------------------------------------------------------------------
(* C11 - period scaling                                                    *)

\* C11: with period "annual" the three income columns of every output row
\* are the reference row's values, with period "monthly" twelve times the
\* output value is the reference row's value; the Percentile column is the
\* reference row's percentile in both.
C11_PeriodScaling ==
    Tabled /\ last.raised = "" /\ last.period \in {"annual", "monthly"} =>
        /\ Len(last.table) = Len(last.rows)
        /\ \A r \in 1..Len(last.table) :
               LET k == IF last.period = "annual" THEN R(1) ELSE R(12)
               IN  /\ last.table[r].Percentile = RefValue("Percentile", r)
                   /\ RMul(last.table[r].us_income, k) = RefValue(LastUsCol, r)
                   /\ RMul(last.table[r].il_income_ils, k) = RefValue(LastIlsCol, r)
                   /\ RMul(last.table[r].il_income_usd, k) = RefValue(LastUsdCol, r)

\* A monthly table of two rows, from the standardized columns, whose incomes
\* are below the reference rows' and whose percentiles are the rows' own.
C11_Witness ==
    /\ Tabled
    /\ last.raised = ""
    /\ last.period = "monthly"
    /\ LastTableUsesStd
    /\ Len(last.table) = 2
    /\ RLt(last.table[2].us_income, RefValue(LastUsCol, 2))
    /\ last.table[2].Percentile = RefValue("Percentile", 2)

-----------------------------------------------------------------------------
(* C12 - ratio column                                                      *)

\* C12: in every output row the ratio is the row's US income divided by the
\* row's Israel income in USD at PPP (of the series the flag selects), and
\* the ratio column is the same for period "annual" and period "monthly",
\* targets and flag being equal.
C12_Ratio ==
    Tabled /\ last.raised = "" /\ last.period \in {"annual", "monthly"} =>
        /\ \A r \in 1..Len(last.table) :
               /\ last.table[r].ratio =
                      RDiv(last.table[r].us_income, last.table[r].il_income_usd)
               /\ last.table[r].ratio =
                      RDiv(RefValue(LastUsCol, r), RefValue(LastUsdCol, r))
        /\ \A period \in {"annual", "monthly"} :
               LET other == create_percentile_table(LastComparator, percentile_data,
                                last.selected_percentiles, last.pick, period,
                                last.standardized).table
               IN  /\ Len(other) = Len(last.table)
                   /\ \A r \in 1..Len(other) : other[r].ratio = last.table[r].ratio

\* A monthly table with a row whose ratio is neither 1 nor the ratio to the
\* Israel income in ILS.
C12_Witness ==
    /\ Tabled
    /\ last.raised = ""
    /\ last.period = "monthly"
    /\ Len(last.table) >= 1
    /\ last.table[1].ratio # R(1)
    /\ last.table[1].ratio # RDiv(last.table[1].us_income, last.table[1].il_income_ils)
    /\ last.table[1].us_income # RefValue(LastUsCol, 1)

-----------------------------------------------------------------------------
(* C13 - standardize_income                                                *)

\* C13: standardize_income returns the income itself for a household size
\* <= 0, and for a size >= 1 the income divided by the square root of the
\* size (the quotient income / result is a root of the size to the model's
\* precision, and exactly 1 and 2 for sizes 1 and 4); so 50000 gives 50000
\* for size 1, 25000 for size 4 and 50000 for size 0.
C13_StandardizeIncome ==
    Compared =>
        LET income == last.annual_income_usd
            size == last.household_size
            out == last.std_annual_income_usd
            root == RDiv(income, out)
        IN  /\ size <= 0 => out = income
            /\ size >= 1 =>
                   /\ root[1] * root[1] <= size * root[2] * root[2]
                   /\ size * (SqrtScale * root[2]) * (SqrtScale * root[2])
                          < (SqrtScale * root[1] + root[2]) * (SqrtScale * root[1] + root[2])
            /\ size = 1 => out = income
            /\ size = 4 => RMul(out, R(2)) = income
            /\ income = R(50000) =>
                   /\ size = 1 => out = R(50000)
                   /\ size = 4 => out = R(25000)
                   /\ size = 0 => out = R(50000)

\* standardize_income(50000, 4) was computed and passed on to the comparison.
C13_Witness ==
    /\ Compared
    /\ last.annual_income_usd = R(50000)
    /\ last.household_size = 4
    /\ last.standardized
    /\ last.std_annual_income_usd = R(25000)
    /\ last.income_usd = R(25000)

-----------------------------------------------------------------------------
(* C14 - currency fields                                                   *)

\* C14: a comparison returns income_usd as it was passed and income_ils =
\* income_usd * ppp_rate, for the rate of the comparator asked (whatever
\* other comparators exist); both fields are the same for either value of
\* the standardized flag and on every table.
C14_CurrencyFields ==
    Compared /\ last.raised = "" =>
        /\ last.result.income_usd = last.income_usd
        /\ last.result.income_ils = RMul(last.income_usd, LastComparator.ppp_rate)
        /\ RDiv(last.result.income_ils, LastComparator.ppp_rate) = last.income_usd
        /\ \A standardized \in BOOLEAN :
               LET r2 == compare_income(LastComparator, last.income_usd, standardized)
               IN  /\ r2.income_usd = last.result.income_usd
                   /\ r2.income_ils = last.result.income_ils

\* The first of two comparators, built at rate 3.7 and followed by one at
\* rate 2, converted a dollar income that is not a whole number.
C14_Witness ==
    /\ Compared
    /\ last.raised = ""
    /\ Len(comparators) = 2
    /\ last.k = 1
    /\ LastComparator.ppp_rate = <<37, 10>>
    /\ comparators[2].ppp_rate = R(2)
    /\ last.income_usd[2] # 1
    /\ last.result.income_ils = RMul(last.income_usd, <<37, 10>>)

-----------------------------------------------------------------------------
(* C15 - percentile difference                                             *)

\* C15: in every result, percentile_difference is israel_percentile minus
\* us_percentile of the same result (us_percentile plus the difference is
\* israel_percentile), for the raw and for the standardized pair.
C15_PercentileDifference ==
    Compared /\ last.raised = "" =>
        /\ RAdd(last.result.us_percentile, last.result.percentile_difference)
               = last.result.israel_percentile
        /\ RLt(R(0), last.result.percentile_difference)
               <=> RLt(last.result.us_percentile, last.result.israel_percentile)

\* A standardized comparison that ranks the income higher in Israel, by a
\* difference that is not a whole number.
C15_Witness ==
    /\ Compared
    /\ last.raised = ""
    /\ last.standardized
    /\ LastComparator.has_standardized_data
    /\ RLt(last.result.us_percentile, last.result.israel_percentile)
    /\ RLt(R(0), last.result.percentile_difference)
    /\ last.result.percentile_difference[2] # 1

-----------------------------------------------------------------------------
(* C16 - interpretation                                                    *)

\* C16: the interpretation is one of three messages: similar_position
\* exactly when |d| < 3 for the percentile difference d, otherwise
\* higher_in_il (reporting d) exactly when d > 0 and higher_in_us (reporting
\* |d|) exactly when d < 0; d = 3 and d = -3 are not similar.
C16_Interpretation ==
    Compared /\ last.raised = "" =>
        LET d == last.result.percentile_difference
            m == last.interpretation
            similar == RLt(R(-3), d) /\ RLt(d, R(3))
        IN  /\ m.message \in {"similar_position", "higher_in_il", "higher_in_us"}
            /\ (m.message = "similar_position") <=> similar
            /\ (m.message = "higher_in_il") <=> (~similar /\ RLt(R(0), d))
            /\ (m.message = "higher_in_us") <=> (~similar /\ RLt(d, R(0)))
            /\ m.message = "higher_in_il" => m.value = d
            /\ m.message = "higher_in_us" =>
                   m.value = <<-d[1], d[2]>> /\ RLt(R(0), m.value)
            /\ d = R(3) => m.message = "higher_in_il"
            /\ d = R(-3) => m.message = "higher_in_us" /\ m.value = R(3)

\* A difference of exactly -3 was interpreted as higher in the US, by 3.
C16_Witness ==
    /\ Compared
    /\ last.raised = ""
    /\ last.result.percentile_difference = R(-3)
    /\ last.interpretation = [message |-> "higher_in_us", value |-> R(3)]

\* A difference of exactly 3 was interpreted as higher in Israel.
C16_ReachesPlusThree ==
    /\ Compared
    /\ last.result.percentile_difference = R(3)
    /\ last.interpretation.message = "higher_in_il"

\* A difference that is not 0 and below 3 in magnitude was read as similar.
C16_ReachesSimilar ==
    /\ Compared
    /\ last.result.percentile_difference # R(0)
    /\ last.interpretation.message = "similar_position"

-----------------------------------------------------------------------------
(* C17 - queries have no side effects                                      *)

\* C17: a step that is a query (compare_income or create_percentile_table,
\* any arguments) leaves every comparator (its ppp_rate,
\* has_standardized_data and mappings) and the reference table, derived
\* columns included, as they were; every comparator is at all times what
\* construction from the loaded table at its rate gives; and the same call
\* made again in the state after the query returns the same result.
C17_QueriesHaveNoSideEffects ==
    [][last'.op \in {"compare", "table"} =>
          /\ comparators' = comparators
          /\ percentile_data' = percentile_data
          /\ \A k \in 1..Len(comparators') :
                 comparators'[k] =
                     PrepareData(original_data, comparators'[k].ppp_rate).comparator
          /\ last'.op = "compare" =>
                 last'.result = compare_income(comparators'[last'.k],
                                    last'.income_usd, last'.standardized)
          /\ last'.op = "table" =>
                 last'.table = create_percentile_table(comparators'[last'.k],
                                   percentile_data', last'.selected_percentiles,
                                   last'.pick, last'.period, last'.standardized).table
      ]_vars

\* A table query of one row on the first of two comparators: the reference
\* table still has its two rows and its derived standardized column, and the
\* comparator is what its construction gave.
C17_Witness ==
    /\ Tabled
    /\ last.raised = ""
    /\ last.k = 1
    /\ Len(comparators) = 2
    /\ Len(last.table) = 1
    /\ percentile_data.nrows = 2
    /\ comparators[1].has_standardized_data
    /\ "Israel_Std_Income_USD" \in Columns(percentile_data)
    /\ comparators[1] = PrepareData(original_data, comparators[1].ppp_rate).comparator

-----------------------------------------------------------------------------
(* C18 - rebuild isolation                                                 *)

\* C18: every Israel income in USD a comparator's annual table reports is
\* the row's Israel income in ILS divided by that comparator's own ppp_rate
\* (and the ratio is the US income divided by it), also for a comparator
\* after which another one was built from the same table at another rate.
C18_RebuildIsolation ==
    Tabled /\ last.raised = "" /\ last.period = "annual" =>
        \A r \in 1..Len(last.table) :
            /\ last.table[r].il_income_usd =
                   RDiv(RefValue(LastIlsCol, r), LastComparator.ppp_rate)
            /\ last.table[r].ratio =
                   RDiv(RefValue(LastUsCol, r),
                        RDiv(RefValue(LastIlsCol, r), LastComparator.ppp_rate))

-----------------------------------------------------------------------------
(* C19 - the caller's table                                                *)

\* C19: after a construction, successful or failed, the table the caller
\* passed in has the columns and values it was loaded with.
C19_CallerTableUnchanged ==
    last.op = "construct" => percentile_data = original_data

-----------------------------------------------------------------------------
(* C20 - period propagation from the form                                  *)

\* C20: the key-percentile table main() builds holds the reference rows'
\* incomes divided by 1 when the Annual period is selected and by 12 when
\* Monthly is, in either language.
C20_PeriodPropagation ==
    Tabled /\ last.raised = "" /\ last.selected_lang # "" =>
        LET k == IF last.income_period = translations[last.selected_lang].annual
                 THEN R(1) ELSE R(12)
        IN  \A r \in 1..Len(last.table) :
                /\ RMul(last.table[r].us_income, k) = RefValue(LastUsCol, r)
                /\ RMul(last.table[r].il_income_ils, k) = RefValue(LastIlsCol, r)
                /\ RMul(last.table[r].il_income_usd, k) = RefValue(LastUsdCol, r)

-----------------------------------------------------------------------------
(* C21 - piecewise-linear interpolation                                    *)

\* The loaded table with its rows in the opposite order.
ReversedTable ==
    [original_data EXCEPT !.col =
        [c \in Columns(original_data) |->
            [i \in 1..original_data.nrows |->
                original_data.col[c][original_data.nrows + 1 - i]]]]

\* p_i + (x - x_i) * (p_j - p_i) / (x_j - x_i)
Chord(x, xi, xj, pi, pj) ==
    RAdd(pi, RDiv(RMul(RSub(x, xi), RSub(pj, pi)), RSub(xj, xi)))

\* The percentile a series must give the income x between two of its rows.
OnChords(x, incomes, percentile) ==
    \A i \in 1..(Len(incomes) - 1) :
        /\ RLt(incomes[i], x)
        /\ RLt(x, incomes[i + 1])
        /\ RLt(LastPercentiles[i], LastPercentiles[i + 1])
        => /\ percentile = Chord(x, incomes[i], incomes[i + 1],
                                 LastPercentiles[i], LastPercentiles[i + 1])
           /\ RLt(LastPercentiles[i], percentile)
           /\ RLt(percentile, LastPercentiles[i + 1])

\* C21: in a series whose incomes strictly increase down the table, an
\* income strictly between the incomes of two adjacent rows gets the value of
\* the chord through the two rows, strictly between their percentiles; and
\* the comparator built from the same rows in the opposite order returns the
\* same result.
C21_PiecewiseLinear ==
    Compared /\ last.raised = "" =>
        /\ StrictlyIncreasing(LastUsIncomes) =>
               OnChords(last.income_usd, LastUsIncomes, last.result.us_percentile)
        /\ StrictlyIncreasing(LastIlIncomes) =>
               OnChords(last.income_usd, LastIlIncomes, last.result.israel_percentile)
        /\ LET reversed == PrepareData(ReversedTable, LastComparator.ppp_rate)
               r2 == compare_income(reversed.comparator, last.income_usd,
                                    last.standardized)
           IN  /\ reversed.raised = ""
               /\ StrictlyIncreasing(LastUsIncomes) =>
                      r2.us_percentile = last.result.us_percentile
               /\ StrictlyIncreasing(LastIlIncomes) =>
                      r2.israel_percentile = last.result.israel_percentile

\* An income strictly inside an interval of both series was ranked strictly
\* between the rows' percentiles, differently in the two countries.
C21_Witness ==
    /\ Compared
    /\ last.raised = ""
    /\ StrictlyIncreasing(LastUsIncomes)
    /\ StrictlyIncreasing(LastIlIncomes)
    /\ \E i \in 1..(Len(LastUsIncomes) - 1) :
           /\ RLt(LastUsIncomes[i], last.income_usd)
           /\ RLt(last.income_usd, LastUsIncomes[i + 1])
           /\ RLt(LastPercentiles[i], last.result.us_percentile)
           /\ RLt(last.result.us_percentile, LastPercentiles[i + 1])
    /\ \E i \in 1..(Len(LastIlIncomes) - 1) :
           /\ RLt(LastIlIncomes[i], last.income_usd)
           /\ RLt(last.income_usd, LastIlIncomes[i + 1])
           /\ RLt(LastPercentiles[i], last.result.israel_percentile)
           /\ RLt(last.result.israel_percentile, LastPercentiles[i + 1])
    /\ last.result.us_percentile # last.result.israel_percentile

-----------------------------------------------------------------------------
(* C22 - the income the comparison is made for                             *)

\* The income main() standardizes, as the model's square root gives it.
LastStandardized(income) == standardize_income(income, last.household_size)

\* C22 as claimed: the income passed to compare_income equals
\* standardize_income(annual_income_usd, household_size) if and only if the
\* standardize flag is set (and is the raw annual income otherwise); the
\* panel's standardized figures are standardize_income of the annual income,
\* and a twelfth of it, whatever the flag; for the household sizes of the
\* form, from 1.
C22_ComparisonIncomeIff ==
    Compared /\ last.household_size >= 1 =>
        /\ (last.income_usd = LastStandardized(last.annual_income_usd))
               <=> last.standardized
        /\ ~last.standardized => last.income_usd = last.annual_income_usd
        /\ last.std_annual_income_usd = LastStandardized(last.annual_income_usd)
        /\ last.std_monthly_income_usd = RDiv(last.std_annual_income_usd, R(12))

\* C22 as amended: the income passed to compare_income is
\* standardize_income(annual_income_usd, household_size) when the flag is set
\* and the raw annual income when it is not (the two are one value when
\* standardize_income changes nothing, as for household size 1); the panel's
\* standardized figures, in USD and in ILS, are standardize_income of the
\* annual income, and a twelfth of it for the month, whatever the flag.
C22_ComparisonIncome ==
    Compared =>
        LET annual_income_ils == RMul(last.annual_income_usd, LastComparator.ppp_rate)
        IN  /\ last.standardized =>
                   last.income_usd = LastStandardized(last.annual_income_usd)
            /\ ~last.standardized => last.income_usd = last.annual_income_usd
            /\ last.result.income_usd = last.income_usd
            /\ last.std_annual_income_usd = LastStandardized(last.annual_income_usd)
            /\ last.std_annual_income_ils = LastStandardized(annual_income_ils)
            /\ RMul(last.std_monthly_income_usd, R(12)) = last.std_annual_income_usd
            /\ RMul(last.std_monthly_income_ils, R(12)) = last.std_annual_income_ils

\* A household of 4 with the flag set: the comparison was made for half the
\* annual income, which the panel shows too.
C22_Witness ==
    /\ Compared
    /\ last.standardized
    /\ last.household_size = 4
    /\ RMul(last.income_usd, R(2)) = last.annual_income_usd
    /\ last.result.income_usd = last.income_usd
    /\ last.std_annual_income_usd = last.income_usd

\* A household of 4 with the flag not set: the comparison was made for the
\* raw income, the panel shows half of it.
C22_ReachesRaw ==
    /\ Compared
    /\ ~last.standardized
    /\ last.household_size = 4
    /\ last.income_usd = last.annual_income_usd
    /\ RMul(last.std_annual_income_usd, R(2)) = last.annual_income_usd

-----------------------------------------------------------------------------
(* C23 - advisory on fallback                                              *)

\* C23: main() shows the standardization warning exactly when the
\* standardized comparison was asked for and the table has no standardized
\* data; the comparison then completes and ranks the income standardized by
\* standardize_income against the raw mappings; the text on pre-calculated
\* standardized distributions is shown exactly when the comparison was asked
\* for and the table has standardized data.
C23_AdvisoryOnFallback ==
    Compared =>
        /\ last.warning <=> (last.standardized /\ ~TableHasStd)
        /\ last.using_precalc <=> (last.standardized /\ TableHasStd)
        /\ last.warning =>
               /\ last.raised = ""
               /\ last.income_usd = LastStandardized(last.annual_income_usd)
               /\ last.result.us_percentile =
                      Interp1dCall(LastComparator.us_percentile_func, last.income_usd)
               /\ last.result.israel_percentile =
                      Interp1dCall(LastComparator.israel_percentile_func, last.income_usd)
               /\ ~LastComparator.us_std_percentile_func.set

\* The warning was shown for a household of 4 and the standardized income,
\* half the annual one, was ranked inside the raw US series.
C23_Witness ==
    /\ Compared
    /\ last.warning
    /\ ~last.using_precalc
    /\ last.raised = ""
    /\ last.household_size = 4
    /\ RMul(last.income_usd, R(2)) = last.annual_income_usd
    /\ InRange(last.result.us_percentile, 2, 98)

\* The pre-calculated text was shown, without the warning.
C23_ReachesPrecalc ==
    /\ Compared
    /\ last.using_precalc
    /\ ~last.warning
    /\ last.standardized

-----------------------------------------------------------------------------
(* C24 - column selection of the table                                     *)

\* C24: a table is built without error; its income and ratio columns come
\* from the standardized columns exactly when standardized was asked for and
\* the comparator has standardized data, and from the raw columns otherwise;
\* on a comparator without standardized data the table for standardized =
\* TRUE is the table for standardized = FALSE.
C24_ColumnSelection ==
    Tabled =>
        LET std == last.standardized /\ TableHasStd
            us == IF std THEN "US_Std_Income_USD" ELSE "US_Income_USD"
            ils == IF std THEN "Israel_Std_Income_ILS" ELSE "Israel_Income_ILS"
            usd == IF std THEN "Israel_Std_Income_USD" ELSE "Israel_Income_USD"
            k == Divider(last.period)
        IN  /\ last.raised = ""
            /\ LastComparator.has_standardized_data = TableHasStd
            /\ \A r \in 1..Len(last.table) :
                   /\ RMul(last.table[r].us_income, k) = RefValue(us, r)
                   /\ RMul(last.table[r].il_income_ils, k) = RefValue(ils, r)
                   /\ RMul(last.table[r].il_income_usd, k) = RefValue(usd, r)
                   /\ RMul(last.table[r].ratio, RefValue(usd, r)) = RefValue(us, r)
            /\ ~TableHasStd =>
                   last.table = create_percentile_table(LastComparator, percentile_data,
                                    last.selected_percentiles, last.pick, last.period,
                                    ~last.standardized).table

\* A standardized table was asked of a comparator without standardized data
\* and came out with the raw incomes.
C24_Witness ==
    /\ Tabled
    /\ last.standardized
    /\ ~LastComparator.has_standardized_data
    /\ last.raised = ""
    /\ Len(last.table) >= 1
    /\ last.period = "annual"
    /\ last.table[1].us_income = RefValue("US_Income_USD", 1)

\* A standardized table from the standardized columns, whose US income is
\* not the raw one.
C24_ReachesStd ==
    /\ Tabled
    /\ last.standardized
    /\ LastComparator.has_standardized_data
    /\ Len(last.table) >= 1
    /\ last.period = "annual"
    /\ last.table[1].us_income = RefValue("US_Std_Income_USD", 1)
    /\ last.table[1].us_income # RefValue("US_Income_USD", 1)

====
